---- MODULE Spec2Model ----
(***************************************************************************)
(* Model of the mail watcher services of smtp-server:                      *)
(*   MailService                (IMAP push source, monotonic cursor)       *)
(*   GmailApiPollingService     (cron poll source, bounded dedup cache)    *)
(*   OutlookGraphPollingService (cron poll source, dedup cache + token)    *)
(* Every await of the TypeScript code is a step boundary; the code between *)
(* two awaits runs on the single event-loop thread and is one action.      *)
(***************************************************************************)
EXTENDS Integers, Sequences, FiniteSets, TLC

\* ---------------------------------------------------------------- bounds
MaxUid == 3          \* largest IMAP uid the backend hands out
MaxList == 2         \* most messages one IMAP fetch iterator yields
MaxSignals == 4      \* most 'exists' events delivered
MaxScans == 2        \* invocations of the 'exists' handler that can coexist
MaxNotify == 3       \* most sendNotification calls recorded
MaxListing == 2      \* most entries one unscripted listing returns
MaxEntries == 4      \* most entries the unscripted backend lists in all
MaxTicks == 2        \* most cron ticks per poll service (unscripted backend)
MaxFailureTicks == 3 \* most cron ticks per poll service when failures are watched
MaxFailedPolls == 1  \* most polls that fail against the scripted backend
MaxPolls == 2        \* pollInbox invocations that can coexist
MaxCache == 2        \* largest configured processedCache
MaxBelowZero == 1    \* how far below 0 a configured processedCache may lie
MaxWork == 2         \* most triggers a source is seen to serve after startup

VARIABLES
    \* ---- MailService (src/unnamed/part_000)
    lastProcessedUid,    \* the Cursor
    processingMailbox,   \* the ScanGuard flag
    uidNext,             \* imapClient.mailbox.uidNext
    mailboxExists,       \* imapClient.mailbox.exists
    scan,                \* per handler invocation: position in handleNewMessages
    signals,             \* 'exists' events delivered so far
    fetchCalls,          \* imapClient.fetch calls issued so far
    notifications,       \* uids handed to sendNotification, in call order
    dropped,             \* 'exists' events that returned at the guard
    \* ---- GmailApiPollingService (src/src/mail/gmail-api.service.ts)
    gmailEnabled,        \* GMAIL_API_ENABLED, cron job registered
    gmailProcessedCache,          \* config.processedCache
    gmailProcessedQueue,          \* processedQueue
    gmailProcessedSet,            \* processedSet
    gmailPoll,           \* per pollInbox invocation: position and entries left
    gmailTicks,          \* cron ticks fired
    gmailLists,          \* messages.list calls issued
    \* ---- OutlookGraphPollingService (same file)
    outlookEnabled,      \* OUTLOOK_API_ENABLED, cron job registered
    outlookProcessedCache,        \* config.processedCache
    outlookProcessedQueue,        \* processedQueue
    outlookProcessedSet,          \* processedSet
    outlookPoll,         \* per pollInbox invocation: position and entries left
    outlookTicks,        \* cron ticks fired
    outlookLists,        \* Graph list-messages calls issued
    accessToken,         \* cached bearer token
    accessTokenExpiresAtMs,
    now,                 \* Date.now(), ms since process start
    exchanges,           \* token requests issued
    expiresInSec,        \* lifetime computed by the last successful exchange
    lastReturn,          \* what the last completed getAccessToken returned
    lastCall,            \* what the last getAccessToken call found on entry
    exchangedAt,         \* Date.now() when the cached token was stored
    callEntry,           \* per invocation: the cache as its token request found it
    lastFailure,         \* the cache as found by the call that last raised
    \* ---- observers of the poll services' log lines
    notified,            \* per service and id: "detected message" lines logged
    horizon,             \* the same, counted since the id last left the cache
    order,               \* per service: cached ids by time of insertion
    lastHit,             \* per service: id last skipped as already cached
    listed,              \* entries the backend has returned in listings
    script,              \* listings a scripted backend still has to return
    aborted,             \* per service: polls ended by a failed listing or token call
    evicting,            \* service whose trackProcessed is in its while loop, or "none"
    \* ---- the IMAP server behind MailService, and observers of its scans
    mailbox,             \* uids of the messages the server holds
    owed,                \* 'exists' events sent by the server, not yet handled
    pending,             \* messages the running fetch has still to yield
    scanSeed,            \* the Cursor when the last fetch was issued
    scanListing,         \* what the server answered to the last fetch
    scanBase,            \* dispatches called and resolved before that fetch
    delivered,           \* uids whose sendNotification resolved, in order
    seed,                \* the Cursor as seeded when the mailbox was opened
    offered,             \* uids above the seed that a fetch has yielded
    \* ---- application startup (src/src/main.ts, the modules' providers)
    config,              \* per source: what its environment settings amount to
    hook,                \* per source: how far its onModuleInit has come
    process,             \* the Node process: "starting", "up" or "exited"
    worked,              \* per source: triggers served since it was started
    \* ---- MailService shutdown (onModuleDestroy), and observers of its errors
    shuttingDown,        \* MailService.shuttingDown
    destroy,             \* onModuleDestroy: "none", "logout" (awaited) or "done"
    observed,            \* errors the push source has met, by kind and phase
    errorLog             \* those of them written with logger.error

imapVars == <<lastProcessedUid, processingMailbox, uidNext, mailboxExists,
              scan, signals, fetchCalls, notifications, dropped>>

gmailVars == <<gmailEnabled, gmailProcessedCache, gmailProcessedQueue, gmailProcessedSet, gmailPoll,
               gmailTicks, gmailLists>>

outlookVars == <<outlookEnabled, outlookProcessedCache, outlookProcessedQueue, outlookProcessedSet,
                 outlookPoll, outlookTicks, outlookLists>>

tokenVars == <<accessToken, accessTokenExpiresAtMs, exchanges, expiresInSec,
               lastReturn, lastCall, exchangedAt, callEntry, lastFailure>>

logVars == <<notified, horizon, order, lastHit>>

pollVars == <<gmailVars, outlookVars, tokenVars, now, logVars, listed, script,
              aborted, evicting>>

backendVars == <<mailbox, owed, pending, scanSeed, scanListing, scanBase,
                 delivered, seed, offered>>

startVars == <<config, hook, process, worked>>

shutdownVars == <<shuttingDown, destroy, observed, errorLog>>

vars == <<imapVars, pollVars, backendVars, startVars, shutdownVars>>

\* ------------------------------------------------- poll sources: data
SkewMs == 30000              \* refresh margin of getAccessToken

DefaultExpiresInSec == 3600  \* lifetime assumed when expires_in is no number

NotANumber == -1             \* stands for an expires_in that is not a number

Ids == {"A", "B", "C", "D"}

NoId == ""                   \* a listing entry without id (falsy)

Entries == Ids \cup {NoId}

Sources == {"gmail", "outlook"}

PollSlots == 1..MaxPolls

\* Listings of the unscripted backend mention the first three ids.
Listings == UNION {[1..n -> Entries \ {"D"}] : n \in 0..MaxListing}

NoToken == ""                \* accessToken undefined, or a falsy access_token

Tokens == {"t1", "t2"}

Lifetimes == {10, 30, 60, 3600}

\* Instants at which the clock is observed (ms).
Instants == {0, 29999, 30000, 100000, 3550000, 3570000}

NoReturn == [token |-> NoToken, at |-> 0, expiresAt |-> 0, exchanged |-> FALSE]

NoCall == [at |-> 0, hadToken |-> FALSE, remaining |-> 0, exchanged |-> FALSE]

NoEntry == [token |-> NoToken, expiresAt |-> 0]

NoFailure == [raised |-> FALSE, token |-> NoToken, expiresAt |-> 0,
              next |-> "none"]

IdlePoll == [pc |-> "idle", rest |-> <<>>]

\* The fields of both poll services after construction.
PollFields0 ==
    /\ gmailProcessedQueue = <<>>
    /\ gmailProcessedSet = {}
    /\ gmailPoll = [s \in PollSlots |-> IdlePoll]
    /\ gmailTicks = 0
    /\ gmailLists = 0
    /\ outlookProcessedQueue = <<>>
    /\ outlookProcessedSet = {}
    /\ outlookPoll = [s \in PollSlots |-> IdlePoll]
    /\ outlookTicks = 0
    /\ outlookLists = 0
    /\ accessToken = NoToken
    /\ accessTokenExpiresAtMs = 0
    /\ now = 0
    /\ exchanges = 0
    /\ expiresInSec = 0
    /\ lastReturn = NoReturn
    /\ lastCall = NoCall
    /\ exchangedAt = 0
    /\ callEntry = [s \in PollSlots |-> NoEntry]
    /\ lastFailure = NoFailure
    /\ notified = [src \in Sources |-> [i \in Ids |-> 0]]
    /\ horizon = [src \in Sources |-> [i \in Ids |-> 0]]
    /\ order = [src \in Sources |-> <<>>]
    /\ lastHit = [src \in Sources |-> NoId]
    /\ listed = 0
    /\ aborted = [src \in Sources |-> 0]
    /\ evicting = "none"

\* Both poll services constructed, neither enabled.
PollsOff ==
    /\ gmailEnabled = FALSE
    /\ gmailProcessedCache = 0
    /\ outlookEnabled = FALSE
    /\ outlookProcessedCache = 0
    /\ PollFields0
    /\ script = <<>>

\* ---------------------------------------------------------------- startup
Providers == {"mail", "gmail", "outlook"}

\* onModuleDestroy has not been called; no error has been met.
NotDestroyed ==
    /\ shuttingDown = FALSE
    /\ destroy = "none"
    /\ observed = {}
    /\ errorLog = {}

\* Startup is over: the process is up, source src polls or watches when on
\* says so and is disabled otherwise.
Started(on) ==
    /\ config = [src \in Providers |-> IF on[src] THEN "ok" ELSE "disabled"]
    /\ hook = [src \in Providers |-> IF on[src] THEN "running" ELSE "disabled"]
    /\ process = "up"
    /\ worked = [src \in Providers |-> 0]

\* ------------------------------------------------------------ MailService
ScanSlots == 1..MaxScans

\* A FetchMessageObject: uid 0 stands for a missing uid, envelope FALSE for
\* a missing envelope.
Messages == [uid : 0..MaxUid, envelope : BOOLEAN]

NoMessage == [uid |-> 0, envelope |-> FALSE]

IdleScan == [pc |-> "idle", yielded |-> 0, last |-> NoMessage]

\* mailboxOpen's uidNext seeds the cursor (0 when uidNext is missing).
SeedCursor(n) == IF n # 0 THEN n - 1 ELSE 0

\* No server is modelled behind the ImapFlow client.
BackendOff ==
    /\ mailbox = {}
    /\ owed = 0
    /\ pending = <<>>
    /\ scanSeed = 0
    /\ scanListing = <<>>
    /\ scanBase = [calls |-> 0, sent |-> 0]
    /\ delivered = <<>>
    /\ seed = 0
    /\ offered = {}

\* startImapWatcher has opened the mailbox and registered the handler.
InitWatcher ==
    /\ uidNext \in 0..MaxUid
    /\ mailboxExists \in BOOLEAN
    /\ lastProcessedUid = SeedCursor(uidNext)
    /\ processingMailbox = FALSE
    /\ scan = [s \in ScanSlots |-> IdleScan]
    /\ signals = 0
    /\ fetchCalls = 0
    /\ notifications = <<>>
    /\ dropped = 0

InitImap ==
    /\ BackendOff
    /\ InitWatcher
    /\ PollsOff
    /\ Started([mail |-> TRUE, gmail |-> FALSE, outlook |-> FALSE])
    /\ NotDestroyed

\* The backend's view of the mailbox changes (arrival, expunge).
MailboxChange ==
    /\ \E n \in uidNext..(MaxUid + 1), e \in BOOLEAN :
         /\ <<n, e>> # <<uidNext, mailboxExists>>
         /\ uidNext' = n
         /\ mailboxExists' = e
    /\ UNCHANGED <<lastProcessedUid, processingMailbox, scan, signals,
                   fetchCalls, notifications, dropped>>

SignalDroppedNever == FALSE

\* 'exists' handler: if (this.processingMailbox) return;
SignalDropped == processingMailbox

\* handleNewMessages returns before fetching.
EarlyReturn == \/ ~mailboxExists
               \/ lastProcessedUid + 1 > uidNext

\* An 'exists' event handled by invocation s of the handler.
ExistsSignal(s) ==
    /\ signals < MaxSignals
    /\ scan[s].pc = "idle"
    /\ \A t \in ScanSlots : t < s => scan[t].pc # "idle"
    /\ signals' = signals + 1
    /\ IF SignalDropped
       THEN /\ dropped' = dropped + 1
            /\ UNCHANGED <<processingMailbox, scan, fetchCalls>>
       ELSE /\ UNCHANGED dropped
            /\ IF EarlyReturn
               THEN /\ processingMailbox' = FALSE
                    /\ UNCHANGED <<scan, fetchCalls>>
               ELSE /\ processingMailbox' = TRUE
                    /\ fetchCalls' = fetchCalls + 1
                    /\ scan' = [scan EXCEPT ![s] =
                          [pc |-> "iter", yielded |-> 0, last |-> NoMessage]]
    /\ UNCHANGED <<lastProcessedUid, uidNext, mailboxExists, notifications>>

SkipMessageNoCursorCheck(m, cursor) == ~m.envelope \/ m.uid = 0

SkipMessageBelowNext(m, cursor) == ~m.envelope \/ m.uid = 0 \/ m.uid <= cursor + 1

\* The loop's continue condition.
SkipMessage(m, cursor) == ~m.envelope \/ m.uid = 0 \/ m.uid <= cursor

\* The fetch iterator yields message m to invocation s.
IterYield(s, m) ==
    /\ scan[s].pc = "iter"
    /\ scan[s].yielded < MaxList
    /\ IF SkipMessage(m, lastProcessedUid)
       THEN /\ scan' = [scan EXCEPT ![s].yielded = @ + 1, ![s].last = m]
            /\ UNCHANGED notifications
       ELSE /\ Len(notifications) < MaxNotify
            /\ scan' = [scan EXCEPT ![s].pc = "sending", ![s].yielded = @ + 1,
                                    ![s].last = m]
            /\ notifications' = Append(notifications, m.uid)
    /\ UNCHANGED <<lastProcessedUid, processingMailbox, uidNext, mailboxExists,
                   signals, fetchCalls, dropped>>

\* sendMail resolved: the cursor advances to the message's uid.
SendDone(s) ==
    /\ scan[s].pc = "sending"
    /\ lastProcessedUid' = scan[s].last.uid
    /\ scan' = [scan EXCEPT ![s].pc = "iter"]
    /\ UNCHANGED <<processingMailbox, uidNext, mailboxExists, signals,
                   fetchCalls, notifications, dropped>>

\* The flag is cleared on return only; a rejection leaves it set.
ScanSettledFlagKept(s) ==
    /\ scan' = [scan EXCEPT ![s] = IdleScan]
    /\ processingMailbox' = (scan[s].pc = "sending")
    /\ UNCHANGED <<lastProcessedUid, uidNext, mailboxExists, signals,
                   fetchCalls, notifications, dropped>>

\* handleNewMessages settled (returned or raised): the handler logs a
\* rejection and clears the flag.
ScanSettled(s) ==
    /\ scan' = [scan EXCEPT ![s] = IdleScan]
    /\ processingMailbox' = FALSE
    /\ UNCHANGED <<lastProcessedUid, uidNext, mailboxExists, signals,
                   fetchCalls, notifications, dropped>>

\* The Cursor is moved to the message before its send has resolved.
SendFailCursorAdvanced(s) ==
    /\ scan[s].pc = "sending"
    /\ lastProcessedUid' = scan[s].last.uid
    /\ scan' = [scan EXCEPT ![s] = IdleScan]
    /\ processingMailbox' = FALSE
    /\ UNCHANGED <<uidNext, mailboxExists, signals, fetchCalls, notifications,
                   dropped>>

\* sendMail rejected.
SendFail(s) ==
    /\ scan[s].pc = "sending"
    /\ ScanSettled(s)

\* The iterator is exhausted.
IterEnd(s) ==
    /\ scan[s].pc = "iter"
    /\ ScanSettled(s)

\* The iterator raised (connection or protocol error).
IterFail(s) ==
    /\ scan[s].pc = "iter"
    /\ ScanSettled(s)

\* MailService constructed and disabled (MAIL_SERVICE_ENABLED is not "true").
ImapOff ==
    /\ BackendOff
    /\ uidNext = 0
    /\ mailboxExists = FALSE
    /\ lastProcessedUid = 0
    /\ processingMailbox = FALSE
    /\ scan = [s \in ScanSlots |-> IdleScan]
    /\ signals = 0
    /\ fetchCalls = 0
    /\ notifications = <<>>
    /\ dropped = 0

NextImap ==
    \/ MailboxChange /\ UNCHANGED <<pollVars, backendVars, startVars, shutdownVars>>
    \/ \E s \in ScanSlots : ExistsSignal(s) /\ UNCHANGED <<pollVars, backendVars, startVars, shutdownVars>>
    \/ \E s \in ScanSlots, m \in Messages : IterYield(s, m) /\ UNCHANGED <<pollVars, backendVars, startVars, shutdownVars>>
    \/ \E s \in ScanSlots : SendDone(s) /\ UNCHANGED <<pollVars, backendVars, startVars, shutdownVars>>
    \/ \E s \in ScanSlots : SendFail(s) /\ UNCHANGED <<pollVars, backendVars, startVars, shutdownVars>>
    \/ \E s \in ScanSlots : IterEnd(s) /\ UNCHANGED <<pollVars, backendVars, startVars, shutdownVars>>
    \/ \E s \in ScanSlots : IterFail(s) /\ UNCHANGED <<pollVars, backendVars, startVars, shutdownVars>>

SpecImap == InitImap /\ [][NextImap]_vars

\* ------------------------------------------------------ startup: bootstrap
\* What the environment of a source amounts to: its *_ENABLED flag is not
\* "true"; everything is set and reachable; a required variable is missing;
\* (MailService) the SMTP verify fails; (MailService) the IMAP connect or
\* mailboxOpen fails.
Settings(src) ==
    IF src = "mail"
    THEN {"disabled", "ok", "missing", "smtp_down", "imap_down"}
    ELSE {"disabled", "ok", "missing"}

\* The MailModule declarations of the repository: the current one provides
\* MailService and OutlookGraphPollingService, the earlier one MailService
\* and GmailApiPollingService.
Modules == {{"mail", "outlook"}, {"mail", "gmail"}}

\* bootstrap() has been called: every provider of the module is constructed
\* and its onModuleInit is about to be called.
InitStartup ==
    /\ \E module \in Modules :
          /\ config \in {c \in [Providers -> {"disabled", "ok", "missing",
                                               "smtp_down", "imap_down"}] :
                            \A src \in Providers :
                                IF src \in module THEN c[src] \in Settings(src)
                                ELSE c[src] = "disabled"}
          /\ hook = [src \in Providers |->
                       IF src \in module THEN "waiting" ELSE "absent"]
    /\ process = "starting"
    /\ worked = [src \in Providers |-> 0]
    /\ ImapOff
    /\ PollsOff
    /\ NotDestroyed

\* GmailApiPollingService / OutlookGraphPollingService.onModuleInit: it has
\* no await; a throw of resolveConfig or registerCronJob is caught and
\* logged, and the hook resolves either way.
PollerInit(src) ==
    /\ src \in {"gmail", "outlook"}
    /\ process = "starting"
    /\ hook[src] = "waiting"
    /\ hook' = [hook EXCEPT ![src] =
                   CASE config[src] = "disabled" -> "disabled"
                     [] config[src] = "ok" -> "running"
                     [] OTHER -> "init_failed"]
    /\ UNCHANGED <<config, process, worked>>

\* MailService.onModuleInit up to its first await: resolveConfig is called
\* outside any try, so a missing variable rejects the hook.
MailInit ==
    /\ process = "starting"
    /\ hook["mail"] = "waiting"
    /\ hook' = [hook EXCEPT !["mail"] =
                   CASE config["mail"] = "disabled" -> "disabled"
                     [] config["mail"] = "missing" -> "rejected"
                     [] OTHER -> "verifying"]
    /\ UNCHANGED <<config, process, worked>>

\* smtpTransport.verify() settled: its catch logs and rethrows.
SmtpVerified ==
    /\ process = "starting"
    /\ hook["mail"] = "verifying"
    /\ hook' = [hook EXCEPT !["mail"] =
                   IF config["mail"] = "smtp_down" THEN "rejected"
                   ELSE "connecting"]
    /\ UNCHANGED <<config, process, worked>>

\* startImapWatcher settled: the catch of onModuleInit logs and rethrows.
ImapStarted ==
    /\ process = "starting"
    /\ hook["mail"] = "connecting"
    /\ hook' = [hook EXCEPT !["mail"] =
                   IF config["mail"] = "imap_down" THEN "rejected"
                   ELSE "running"]
    /\ UNCHANGED <<config, process, worked>>

\* createApplicationContext rejected because a hook rejected (every hook
\* has been called by then): bootstrap().catch logs and calls
\* process.exit(1).
BootstrapFailed ==
    /\ process = "starting"
    /\ \A src \in Providers : hook[src] # "waiting"
    /\ \E src \in Providers : hook[src] = "rejected"
    /\ process' = "exited"
    /\ UNCHANGED <<config, hook, worked>>

\* createApplicationContext resolved: "Email notifier is running...".
BootstrapDone ==
    /\ process = "starting"
    /\ \A src \in Providers :
          hook[src] \in {"absent", "disabled", "init_failed", "running"}
    /\ process' = "up"
    /\ UNCHANGED <<config, hook, worked>>

\* A started source serves a trigger (cron tick, 'exists' event); nothing
\* runs once the process has exited.
Serve(src) ==
    /\ process # "exited"
    /\ hook[src] = "running"
    /\ worked[src] < MaxWork
    /\ worked' = [worked EXCEPT ![src] = @ + 1]
    /\ UNCHANGED <<config, hook, process>>

NextStartup ==
    \/ \E src \in Providers :
          PollerInit(src) /\ UNCHANGED <<imapVars, pollVars, backendVars, shutdownVars>>
    \/ MailInit /\ UNCHANGED <<imapVars, pollVars, backendVars, shutdownVars>>
    \/ SmtpVerified /\ UNCHANGED <<imapVars, pollVars, backendVars, shutdownVars>>
    \/ ImapStarted /\ UNCHANGED <<imapVars, pollVars, backendVars, shutdownVars>>
    \/ BootstrapFailed /\ UNCHANGED <<imapVars, pollVars, backendVars, shutdownVars>>
    \/ BootstrapDone /\ UNCHANGED <<imapVars, pollVars, backendVars, shutdownVars>>
    \/ \E src \in Providers :
          Serve(src) /\ UNCHANGED <<imapVars, pollVars, backendVars, shutdownVars>>

SpecStartup == InitStartup /\ [][NextStartup]_vars

\* ------------------------------------- MailService against an IMAP server
\* The server assigns uids in arrival order, sends one 'exists' event per
\* arrival, and answers a fetch of "from:*" with the messages it holds at
\* that moment whose uid is at least from, in ascending order; when there
\* is none it answers with the message of highest uid ("*").
MaxOf(S) == CHOOSE u \in S : \A v \in S : v <= u

Ascending(S) ==
    CHOOSE f \in [1..Cardinality(S) -> S] :
        \A i, j \in 1..Cardinality(S) : i < j => f[i] < f[j]

FetchRange(from) ==
    LET hit == {u \in mailbox : u >= from}
        uids == IF hit # {} THEN Ascending(hit)
                ELSE IF mailbox # {} THEN <<MaxOf(mailbox)>> ELSE <<>>
    IN  [i \in 1..Len(uids) |-> [uid |-> uids[i], envelope |-> TRUE]]

\* The uids above the seed that have been yielded once m is.
Offer(m) == IF m.uid > seed THEN offered \cup {m.uid} ELSE offered

\* The mailbox holds the messages 1..uidNext-1 when it is opened.
InitBackend ==
    /\ uidNext \in 1..MaxUid
    /\ mailbox = 1..(uidNext - 1)
    /\ mailboxExists = (uidNext > 1)
    /\ lastProcessedUid = SeedCursor(uidNext)
    /\ processingMailbox = FALSE
    /\ scan = [s \in ScanSlots |-> IdleScan]
    /\ signals = 0
    /\ fetchCalls = 0
    /\ notifications = <<>>
    /\ dropped = 0
    /\ owed = 0
    /\ pending = <<>>
    /\ scanSeed = 0
    /\ scanListing = <<>>
    /\ scanBase = [calls |-> 0, sent |-> 0]
    /\ delivered = <<>>
    /\ seed = lastProcessedUid
    /\ offered = {}
    /\ PollsOff
    /\ Started([mail |-> TRUE, gmail |-> FALSE, outlook |-> FALSE])
    /\ NotDestroyed

\* A message arrives: it gets uid uidNext and the server sends 'exists'.
\* No more than MaxList messages wait above the Cursor.
Arrival ==
    /\ uidNext <= MaxUid
    /\ Cardinality({u \in mailbox : u > lastProcessedUid}) < MaxList
    /\ MailboxChange
    /\ uidNext' = uidNext + 1
    /\ mailboxExists' = TRUE
    /\ mailbox' = mailbox \cup {uidNext}
    /\ owed' = owed + 1
    /\ UNCHANGED <<pending, scanSeed, scanListing, scanBase, delivered, seed,
                   offered>>

\* The 'exists' event reaches the handler; a fetch it issues is answered
\* from the mailbox as it is now.
Delivery(s) ==
    /\ owed > 0
    /\ ExistsSignal(s)
    /\ owed' = owed - 1
    /\ IF ~SignalDropped /\ ~EarlyReturn
       THEN /\ pending' = FetchRange(lastProcessedUid + 1)
            /\ scanListing' = FetchRange(lastProcessedUid + 1)
            /\ scanSeed' = lastProcessedUid
            /\ scanBase' = [calls |-> Len(notifications), sent |-> Len(delivered)]
       ELSE UNCHANGED <<pending, scanSeed, scanListing, scanBase>>
    /\ UNCHANGED <<mailbox, delivered, seed, offered>>

\* The fetch yields its next message.
Yield(s) ==
    /\ pending # <<>>
    /\ IterYield(s, Head(pending))
    /\ pending' = Tail(pending)
    /\ offered' = Offer(Head(pending))
    /\ UNCHANGED <<mailbox, owed, scanSeed, scanListing, scanBase, delivered,
                   seed>>

Sent(s) ==
    /\ SendDone(s)
    /\ delivered' = Append(delivered, scan[s].last.uid)
    /\ UNCHANGED <<mailbox, owed, pending, scanSeed, scanListing, scanBase,
                   seed, offered>>

NotSent(s) ==
    /\ SendFail(s)
    /\ pending' = <<>>
    /\ UNCHANGED <<mailbox, owed, scanSeed, scanListing, scanBase, delivered,
                   seed, offered>>

\* The fetch has yielded everything.
Exhausted(s) ==
    /\ pending = <<>>
    /\ IterEnd(s)
    /\ UNCHANGED backendVars

\* The connection breaks during the fetch.
Broken(s) ==
    /\ pending # <<>>
    /\ IterFail(s)
    /\ pending' = <<>>
    /\ UNCHANGED <<mailbox, owed, scanSeed, scanListing, scanBase, delivered,
                   seed, offered>>

NextBackend ==
    \/ Arrival /\ UNCHANGED <<pollVars, startVars, shutdownVars>>
    \/ \E s \in ScanSlots : Delivery(s) /\ UNCHANGED <<pollVars, startVars, shutdownVars>>
    \/ \E s \in ScanSlots : Yield(s) /\ UNCHANGED <<pollVars, startVars, shutdownVars>>
    \/ \E s \in ScanSlots : Sent(s) /\ UNCHANGED <<pollVars, startVars, shutdownVars>>
    \/ \E s \in ScanSlots : NotSent(s) /\ UNCHANGED <<pollVars, startVars, shutdownVars>>
    \/ \E s \in ScanSlots : Exhausted(s) /\ UNCHANGED <<pollVars, startVars, shutdownVars>>
    \/ \E s \in ScanSlots : Broken(s) /\ UNCHANGED <<pollVars, startVars, shutdownVars>>

SpecBackend == InitBackend /\ [][NextBackend]_vars

\* The same server with every fetch running to its end and every send
\* resolving. The event loop runs a handler whose event has arrived and
\* resumes a scan whose fetch or send has settled; nothing makes a new
\* message arrive.
EventHandled == \E s \in ScanSlots : Delivery(s) /\ UNCHANGED <<pollVars, startVars, shutdownVars>>

MessageYielded == \E s \in ScanSlots : Yield(s) /\ UNCHANGED <<pollVars, startVars, shutdownVars>>

SendResolved == \E s \in ScanSlots : Sent(s) /\ UNCHANGED <<pollVars, startVars, shutdownVars>>

FetchExhausted == \E s \in ScanSlots : Exhausted(s) /\ UNCHANGED <<pollVars, startVars, shutdownVars>>

NextQuiet ==
    \/ Arrival /\ UNCHANGED <<pollVars, startVars, shutdownVars>>
    \/ EventHandled
    \/ MessageYielded
    \/ SendResolved
    \/ FetchExhausted

SpecQuiet ==
    /\ InitBackend
    /\ [][NextQuiet]_vars
    /\ WF_vars(EventHandled)
    /\ WF_vars(MessageYielded)
    /\ WF_vars(SendResolved)
    /\ WF_vars(FetchExhausted)

\* ------------------------------------------------- MailService: shutdown
\* An error met by the push source: where it came from, and whether
\* shuttingDown was set when it was met.
ErrorKinds == {"connection", "scan", "logout"}

Met(kind) == [kind |-> kind, shutdown |-> shuttingDown]

\* The error is met and written with logger.error.
Reported(kind) ==
    /\ observed' = observed \cup {Met(kind)}
    /\ errorLog' = errorLog \cup {Met(kind)}

\* The imapClient 'error' handler: if (this.shuttingDown) return; else the
\* error is logged.
ErrorEvent ==
    /\ destroy # "done"
    /\ observed' = observed \cup {Met("connection")}
    /\ errorLog' = IF shuttingDown THEN errorLog
                   ELSE errorLog \cup {Met("connection")}
    /\ UNCHANGED <<shuttingDown, destroy>>

\* onModuleDestroy up to its await: the flag is set and logout is called.
Destroy ==
    /\ destroy = "none"
    /\ shuttingDown' = TRUE
    /\ destroy' = "logout"
    /\ UNCHANGED <<observed, errorLog>>

\* logout settled: its catch logs a rejection; the SMTP transport is
\* closed and onModuleDestroy returns.
LogoutDone(ok) ==
    /\ destroy = "logout"
    /\ destroy' = "done"
    /\ IF ok THEN UNCHANGED <<observed, errorLog>> ELSE Reported("logout")
    /\ UNCHANGED shuttingDown

\* handleNewMessages rejected (sendMail rejected, or the fetch raised): the
\* catch of the 'exists' handler logs it.
ScanRejected(s) ==
    /\ NotSent(s) \/ Broken(s)
    /\ Reported("scan")
    /\ UNCHANGED <<shuttingDown, destroy>>

\* The server and the watcher as before while the connection is open; a
\* scan already running goes on after it was closed.
NextShutdown ==
    \/ destroy # "done" /\ Arrival /\ UNCHANGED <<pollVars, startVars, shutdownVars>>
    \/ \E s \in ScanSlots :
          destroy # "done" /\ Delivery(s) /\ UNCHANGED <<pollVars, startVars, shutdownVars>>
    \/ \E s \in ScanSlots : Yield(s) /\ UNCHANGED <<pollVars, startVars, shutdownVars>>
    \/ \E s \in ScanSlots : Sent(s) /\ UNCHANGED <<pollVars, startVars, shutdownVars>>
    \/ \E s \in ScanSlots : Exhausted(s) /\ UNCHANGED <<pollVars, startVars, shutdownVars>>
    \/ \E s \in ScanSlots : ScanRejected(s) /\ UNCHANGED <<pollVars, startVars>>
    \/ ErrorEvent /\ UNCHANGED <<imapVars, pollVars, backendVars, startVars>>
    \/ Destroy /\ UNCHANGED <<imapVars, pollVars, backendVars, startVars>>
    \/ \E ok \in BOOLEAN :
          LogoutDone(ok) /\ UNCHANGED <<imapVars, pollVars, backendVars, startVars>>

SpecShutdown == InitBackend /\ [][NextShutdown]_vars

\* ------------------------------------ MailService, what its fetches yielded
\* The fetch yields whatever it yields (any uid, with or without envelope,
\* in any order); what was yielded and what was sent is recorded.
InitOffered ==
    /\ InitWatcher
    /\ mailbox = {}
    /\ owed = 0
    /\ pending = <<>>
    /\ scanSeed = 0
    /\ scanListing = <<>>
    /\ scanBase = [calls |-> 0, sent |-> 0]
    /\ delivered = <<>>
    /\ seed = lastProcessedUid
    /\ offered = {}
    /\ PollsOff
    /\ Started([mail |-> TRUE, gmail |-> FALSE, outlook |-> FALSE])
    /\ NotDestroyed

Unrecorded == UNCHANGED <<mailbox, owed, pending, scanSeed, scanListing, scanBase>>

NextOffered ==
    \/ /\ MailboxChange
       /\ Unrecorded
       /\ UNCHANGED <<delivered, seed, offered, pollVars, startVars, shutdownVars>>
    \/ \E s \in ScanSlots :
          /\ ExistsSignal(s)
          /\ Unrecorded
          /\ UNCHANGED <<delivered, seed, offered, pollVars, startVars, shutdownVars>>
    \/ \E s \in ScanSlots, m \in Messages :
          /\ IterYield(s, m)
          /\ offered' = Offer(m)
          /\ Unrecorded
          /\ UNCHANGED <<delivered, seed, pollVars, startVars, shutdownVars>>
    \/ \E s \in ScanSlots :
          /\ SendDone(s)
          /\ delivered' = Append(delivered, scan[s].last.uid)
          /\ Unrecorded
          /\ UNCHANGED <<seed, offered, pollVars, startVars, shutdownVars>>
    \/ \E s \in ScanSlots :
          /\ SendFail(s)
          /\ Unrecorded
          /\ UNCHANGED <<delivered, seed, offered, pollVars, startVars, shutdownVars>>
    \/ \E s \in ScanSlots :
          /\ IterEnd(s)
          /\ Unrecorded
          /\ UNCHANGED <<delivered, seed, offered, pollVars, startVars, shutdownVars>>
    \/ \E s \in ScanSlots :
          /\ IterFail(s)
          /\ Unrecorded
          /\ UNCHANGED <<delivered, seed, offered, pollVars, startVars, shutdownVars>>

SpecOffered == InitOffered /\ [][NextOffered]_vars

\* ------------------------------------------------- poll sources: dedup cache
RECURSIVE Evict(_, _, _)
RECURSIVE EvictNoSetDelete(_, _, _)
RECURSIVE EvictNewest(_, _, _)
RECURSIVE EvictOffByOne(_, _, _)

\* >= in place of >: the cache holds one identifier fewer.
EvictOffByOne(q, s, cap) ==
    IF Len(q) >= cap /\ q # <<>>
    THEN LET oldest == Head(q)
         IN  EvictOffByOne(Tail(q), IF oldest # NoId THEN s \ {oldest} ELSE s, cap)
    ELSE [queue |-> q, set |-> s]

\* The queue is trimmed and the set is left alone.
EvictNoSetDelete(q, s, cap) ==
    IF Len(q) > cap
    THEN EvictNoSetDelete(Tail(q), s, cap)
    ELSE [queue |-> q, set |-> s]

\* pop() in place of shift(): the newest identifier goes first.
EvictNewest(q, s, cap) ==
    IF Len(q) > cap
    THEN LET newest == q[Len(q)]
         IN  EvictNewest(SubSeq(q, 1, Len(q) - 1),
                         IF newest # NoId THEN s \ {newest} ELSE s, cap)
    ELSE [queue |-> q, set |-> s]

\* trackProcessed's loop: while (queue.length > cap) { shift; delete }
Evict(q, s, cap) ==
    IF Len(q) > cap
    THEN LET oldest == Head(q)
         IN  Evict(Tail(q), IF oldest # NoId THEN s \ {oldest} ELSE s, cap)
    ELSE [queue |-> q, set |-> s]

\* trackProcessed(id) on a cache <<q, s>> of capacity cap.
TrackProcessed(q, s, cap, id) ==
    IF id \in s
    THEN [queue |-> q, set |-> s]
    ELSE Evict(Append(q, id), s \cup {id}, cap)

\* The loop skips entries without id only.
SkipEntryNoMembership(e, s) == e = NoId

\* The loop's continue condition: if (!id || processedSet.has(id)) continue;
SkipEntry(e, s) == e = NoId \/ e \in s

\* Synchronous code of a poll loop is running: nothing else is scheduled
\* until it reaches an await or returns.
Busy == \E s \in PollSlots : gmailPoll[s].pc = "loop" \/ outlookPoll[s].pc = "loop"

\* A new invocation takes the lowest free slot.
FreeSlot(poll, s) ==
    /\ poll[s].pc = "idle"
    /\ \A u \in PollSlots : u < s => poll[u].pc # "idle"

\* The loop after the entry at the head of rest has been dealt with.
AfterEntry(rest) ==
    IF Len(rest) > 1 THEN [pc |-> "loop", rest |-> Tail(rest)] ELSE IdlePoll

\* The "detected message" line for id was logged by src and trackProcessed
\* took the cache's set from old to new.
Logged(src, id, old, new) ==
    LET removed == (old \cup {id}) \ new
    IN  /\ notified' = [notified EXCEPT ![src][id] = @ + 1]
        /\ horizon' = [horizon EXCEPT ![src] =
              [i \in Ids |-> IF i \in removed THEN 0
                             ELSE IF i = id THEN @[i] + 1 ELSE @[i]]]
        /\ order' = [order EXCEPT ![src] =
              SelectSeq(IF id \in old THEN @ ELSE Append(@, id),
                        LAMBDA x : x \notin removed)]
        /\ UNCHANGED lastHit

\* src skipped entry e of its listing.
Skipped(src, e) ==
    /\ lastHit' = IF e # NoId THEN [lastHit EXCEPT ![src] = e] ELSE lastHit
    /\ UNCHANGED <<notified, horizon, order>>

ListFailed == [ok |-> FALSE, value |-> <<>>]

\* The response's body is read whatever its status.
PollAfterListingStatusIgnored(resp) ==
    IF resp.value # <<>> THEN [pc |-> "loop", rest |-> resp.value] ELSE IdlePoll

\* pollInbox once its listing call has settled: a failed call raises and an
\* empty listing returns (the poll is over); otherwise the loop starts.
PollAfterListing(resp) ==
    IF resp.ok /\ resp.value # <<>>
    THEN [pc |-> "loop", rest |-> resp.value]
    ELSE IdlePoll

ListResponses == {ListFailed} \cup [ok : {TRUE}, value : Listings]

\* --------------------------------------------------- GmailApiPollingService
\* A cron tick: the job's callback calls pollInbox, which issues
\* users.messages.list.
GmailTick(s) ==
    /\ gmailEnabled
    /\ ~Busy
    /\ FreeSlot(gmailPoll, s)
    /\ gmailTicks' = gmailTicks + 1
    /\ gmailLists' = gmailLists + 1
    /\ gmailPoll' = [gmailPoll EXCEPT ![s] = [pc |-> "list", rest |-> <<>>]]
    /\ UNCHANGED <<gmailEnabled, gmailProcessedCache, gmailProcessedQueue, gmailProcessedSet>>
    /\ UNCHANGED <<outlookVars, tokenVars, now, logVars>>
    /\ UNCHANGED listed

\* The listing call settled.
GmailListDone(s, resp) ==
    /\ ~Busy
    /\ gmailPoll[s].pc = "list"
    /\ gmailPoll' = [gmailPoll EXCEPT ![s] = PollAfterListing(resp)]
    /\ UNCHANGED <<gmailEnabled, gmailProcessedCache, gmailProcessedQueue, gmailProcessedSet, gmailTicks,
                   gmailLists>>
    /\ UNCHANGED <<outlookVars, tokenVars, now, logVars>>
    /\ listed' = listed + (IF resp.ok THEN Len(resp.value) ELSE 0)

\* One turn of the loop up to its await: skip the entry, or call
\* inspectMessage for it.
GmailLoop(s) ==
    /\ gmailPoll[s].pc = "loop"
    /\ LET e == Head(gmailPoll[s].rest)
       IN  IF SkipEntry(e, gmailProcessedSet)
           THEN /\ gmailPoll' = [gmailPoll EXCEPT ![s] =
                                   AfterEntry(gmailPoll[s].rest)]
                /\ Skipped("gmail", e)
           ELSE /\ gmailPoll' = [gmailPoll EXCEPT ![s].pc = "inspect"]
                /\ UNCHANGED logVars
    /\ UNCHANGED <<gmailEnabled, gmailProcessedCache, gmailProcessedQueue, gmailProcessedSet, gmailTicks,
                   gmailLists>>
    /\ UNCHANGED <<outlookVars, tokenVars, now>>
    /\ UNCHANGED listed

\* users.messages.get resolved: inspectMessage logs the message, then
\* trackProcessed(id), then the loop goes on.
GmailInspectDone(s) ==
    /\ ~Busy
    /\ gmailPoll[s].pc = "inspect"
    /\ LET id == Head(gmailPoll[s].rest)
           tp == TrackProcessed(gmailProcessedQueue, gmailProcessedSet, gmailProcessedCache, id)
       IN  /\ gmailProcessedQueue' = tp.queue
           /\ gmailProcessedSet' = tp.set
           /\ Logged("gmail", id, gmailProcessedSet, tp.set)
    /\ gmailPoll' = [gmailPoll EXCEPT ![s] = AfterEntry(gmailPoll[s].rest)]
    /\ UNCHANGED <<gmailEnabled, gmailProcessedCache, gmailTicks, gmailLists>>
    /\ UNCHANGED <<outlookVars, tokenVars, now>>
    /\ UNCHANGED listed

\* users.messages.get rejected: inspectMessage raises, pollInbox rejects and
\* the cron callback logs "Gmail API poll failed".
GmailInspectFail(s) ==
    /\ ~Busy
    /\ gmailPoll[s].pc = "inspect"
    /\ gmailPoll' = [gmailPoll EXCEPT ![s] = IdlePoll]
    /\ UNCHANGED <<gmailEnabled, gmailProcessedCache, gmailProcessedQueue, gmailProcessedSet, gmailTicks,
                   gmailLists>>
    /\ UNCHANGED <<outlookVars, tokenVars, now, logVars>>
    /\ UNCHANGED listed

\* ----------------------------------------------- OutlookGraphPollingService
TokenCachedNoSkew ==
    accessToken # NoToken /\ now < accessTokenExpiresAtMs

TokenCachedInclusive ==
    accessToken # NoToken /\ now <= accessTokenExpiresAtMs - SkewMs

\* getAccessToken's cache check.
TokenCached ==
    accessToken # NoToken /\ now < accessTokenExpiresAtMs - SkewMs

ExpiresAtMsNoScale(t, sec) == t + sec

\* accessTokenExpiresAtMs = Date.now() + expiresInSec * 1000
ExpiresAtMs(t, sec) == t + sec * 1000

TokenFailed == [ok |-> FALSE, access_token |-> NoToken, expires_in |-> NotANumber]

TokenResponses ==
    {TokenFailed} \cup
    [ok : {TRUE}, access_token : Tokens \cup {NoToken},
     expires_in : Lifetimes \cup {NotANumber}]

\* With the clock at rest: a failure, and a token that is reused from then on.
FewTokenResponses ==
    {TokenFailed, [ok |-> TRUE, access_token |-> "t1", expires_in |-> 3600]}

\* A cron tick: pollInbox -> listUnreadMessages -> getAccessToken, which
\* returns the cached token (the listing call is issued) or requests one.
OutlookTick(s) ==
    /\ outlookEnabled
    /\ ~Busy
    /\ FreeSlot(outlookPoll, s)
    /\ outlookTicks' = outlookTicks + 1
    /\ lastCall' = [at |-> now, hadToken |-> accessToken # NoToken,
                    remaining |-> accessTokenExpiresAtMs - now,
                    exchanged |-> ~TokenCached]
    /\ IF TokenCached
       THEN /\ lastReturn' = [token |-> accessToken, at |-> now,
                              expiresAt |-> accessTokenExpiresAtMs,
                              exchanged |-> FALSE]
            /\ outlookLists' = outlookLists + 1
            /\ outlookPoll' = [outlookPoll EXCEPT ![s] =
                                 [pc |-> "list", rest |-> <<>>]]
            /\ UNCHANGED <<exchanges, callEntry>>
       ELSE /\ exchanges' = exchanges + 1
            /\ outlookPoll' = [outlookPoll EXCEPT ![s] =
                                 [pc |-> "exchange", rest |-> <<>>]]
            /\ callEntry' = [callEntry EXCEPT ![s] =
                  [token |-> accessToken, expiresAt |-> accessTokenExpiresAtMs]]
            /\ UNCHANGED <<lastReturn, outlookLists>>
    /\ lastFailure' = IF lastFailure.raised /\ lastFailure.next = "none"
                       THEN [lastFailure EXCEPT !.next =
                               IF TokenCached THEN "cached" ELSE "exchange"]
                       ELSE lastFailure
    /\ UNCHANGED <<accessToken, accessTokenExpiresAtMs, expiresInSec,
                   exchangedAt>>
    /\ UNCHANGED <<outlookEnabled, outlookProcessedCache, outlookProcessedQueue, outlookProcessedSet>>
    /\ UNCHANGED <<gmailVars, now, logVars>>
    /\ UNCHANGED listed

TokenClearedOnFailure == [token |-> NoToken, expiresAt |-> 0]

\* The throw statements of getAccessToken assign nothing: the cache holds
\* what it held.
TokenKeptOnFailure == [token |-> accessToken, expiresAt |-> accessTokenExpiresAtMs]

\* The lifetime getAccessToken computes from the response.
ExpiresInSec(resp) ==
    IF resp.expires_in # NotANumber THEN resp.expires_in ELSE DefaultExpiresInSec

\* The token request settled: an error response or a missing access_token
\* raises (the poll is over); otherwise the token and its expiry are stored
\* and the listing call is issued.
OutlookExchangeDone(s, resp) ==
    /\ ~Busy
    /\ outlookPoll[s].pc = "exchange"
    /\ IF ~resp.ok \/ resp.access_token = NoToken
       THEN /\ outlookPoll' = [outlookPoll EXCEPT ![s] = IdlePoll]
            /\ accessToken' = TokenKeptOnFailure.token
            /\ accessTokenExpiresAtMs' = TokenKeptOnFailure.expiresAt
            /\ lastFailure' = [raised |-> TRUE, token |-> callEntry[s].token,
                               expiresAt |-> callEntry[s].expiresAt,
                               next |-> "none"]
            /\ UNCHANGED <<expiresInSec, lastReturn, outlookLists, exchangedAt>>
       ELSE /\ accessToken' = resp.access_token
            /\ UNCHANGED lastFailure
            /\ expiresInSec' = ExpiresInSec(resp)
            /\ accessTokenExpiresAtMs' = ExpiresAtMs(now, ExpiresInSec(resp))
            /\ exchangedAt' = now
            /\ lastReturn' = [token |-> resp.access_token, at |-> now,
                              expiresAt |-> ExpiresAtMs(now, ExpiresInSec(resp)),
                              exchanged |-> TRUE]
            /\ outlookLists' = outlookLists + 1
            /\ outlookPoll' = [outlookPoll EXCEPT ![s] =
                                 [pc |-> "list", rest |-> <<>>]]
    /\ callEntry' = [callEntry EXCEPT ![s] = NoEntry]
    /\ UNCHANGED <<exchanges, lastCall>>
    /\ UNCHANGED <<outlookEnabled, outlookProcessedCache, outlookProcessedQueue, outlookProcessedSet,
                   outlookTicks>>
    /\ UNCHANGED <<gmailVars, now, logVars>>
    /\ UNCHANGED listed

\* The listing call settled.
OutlookListDone(s, resp) ==
    /\ ~Busy
    /\ outlookPoll[s].pc = "list"
    /\ outlookPoll' = [outlookPoll EXCEPT ![s] = PollAfterListing(resp)]
    /\ UNCHANGED <<outlookEnabled, outlookProcessedCache, outlookProcessedQueue, outlookProcessedSet,
                   outlookTicks, outlookLists>>
    /\ UNCHANGED <<gmailVars, tokenVars, now, logVars>>
    /\ listed' = listed + (IF resp.ok THEN Len(resp.value) ELSE 0)

\* One turn of the loop (it has no await): skip the entry, or logMessage
\* and trackProcessed(id).
OutlookLoop(s) ==
    /\ outlookPoll[s].pc = "loop"
    /\ LET id == Head(outlookPoll[s].rest)
           tp == TrackProcessed(outlookProcessedQueue, outlookProcessedSet, outlookProcessedCache, id)
       IN  IF SkipEntry(id, outlookProcessedSet)
           THEN /\ UNCHANGED <<outlookProcessedQueue, outlookProcessedSet>>
                /\ Skipped("outlook", id)
           ELSE /\ outlookProcessedQueue' = tp.queue
                /\ outlookProcessedSet' = tp.set
                /\ Logged("outlook", id, outlookProcessedSet, tp.set)
    /\ outlookPoll' = [outlookPoll EXCEPT ![s] = AfterEntry(outlookPoll[s].rest)]
    /\ UNCHANGED <<outlookEnabled, outlookProcessedCache, outlookTicks, outlookLists>>
    /\ UNCHANGED <<gmailVars, tokenVars, now>>
    /\ UNCHANGED listed

\* Time passes.
AdvanceClock(t) ==
    /\ ~Busy
    /\ t > now
    /\ now' = t
    /\ UNCHANGED <<gmailVars, outlookVars, tokenVars, logVars>>
    /\ UNCHANGED listed

\* ------------------------------------ trackProcessed, one loop turn at a time
\* The cache of a poll service and its configured capacity.
CacheOf(src) ==
    IF src = "gmail"
    THEN [on |-> gmailEnabled, queue |-> gmailProcessedQueue,
          set |-> gmailProcessedSet, cap |-> gmailProcessedCache]
    ELSE [on |-> outlookEnabled, queue |-> outlookProcessedQueue,
          set |-> outlookProcessedSet, cap |-> outlookProcessedCache]

\* processedQueue and processedSet of src become q and s.
SetCache(src, q, s) ==
    IF src = "gmail"
    THEN /\ gmailProcessedQueue' = q
         /\ gmailProcessedSet' = s
         /\ UNCHANGED <<outlookProcessedQueue, outlookProcessedSet>>
    ELSE /\ outlookProcessedQueue' = q
         /\ outlookProcessedSet' = s
         /\ UNCHANGED <<gmailProcessedQueue, gmailProcessedSet>>

TrackFrame ==
    UNCHANGED <<gmailEnabled, gmailProcessedCache, gmailPoll, gmailTicks,
                gmailLists, outlookEnabled, outlookProcessedCache, outlookPoll,
                outlookTicks, outlookLists, tokenVars, now, logVars, script,
                aborted>>

\* trackProcessed(id) up to its while: an id already in the set returns,
\* a new one is added to the set and pushed on the queue.
TrackInsert(src, id) ==
    /\ evicting = "none"
    /\ CacheOf(src).on
    /\ listed' = listed + 1
    /\ IF id \in CacheOf(src).set
       THEN UNCHANGED <<gmailProcessedQueue, gmailProcessedSet,
                        outlookProcessedQueue, outlookProcessedSet, evicting>>
       ELSE /\ SetCache(src, Append(CacheOf(src).queue, id),
                        CacheOf(src).set \cup {id})
            /\ evicting' = src
    /\ TrackFrame

\* The while condition processedQueue.length > processedCache.
LoopCondition(src) == Len(CacheOf(src).queue) > CacheOf(src).cap

\* One turn of the while: shift() takes the oldest id, or undefined from
\* an empty queue; if (oldest) processedSet.delete(oldest).
LoopTurn(src) ==
    /\ evicting = src
    /\ LoopCondition(src)
    /\ LET q == CacheOf(src).queue
       IN  IF q = <<>>
           THEN SetCache(src, q, CacheOf(src).set)
           ELSE SetCache(src, Tail(q),
                         IF Head(q) # NoId THEN CacheOf(src).set \ {Head(q)}
                         ELSE CacheOf(src).set)
    /\ UNCHANGED <<evicting, listed>>
    /\ TrackFrame

\* The while condition is false: trackProcessed returns.
LoopExit(src) ==
    /\ evicting = src
    /\ ~LoopCondition(src)
    /\ evicting' = "none"
    /\ UNCHANGED <<gmailProcessedQueue, gmailProcessedSet,
                   outlookProcessedQueue, outlookProcessedSet, listed>>
    /\ TrackFrame

\* One poll service is enabled; Number(...) of its *_PROCESSED_CACHE
\* setting is any integer from -MaxBelowZero to MaxCache.
InitTrack ==
    /\ ImapOff
    /\ PollFields0
    /\ script = <<>>
    /\ \/ /\ gmailEnabled = TRUE
          /\ gmailProcessedCache \in (0 - MaxBelowZero)..MaxCache
          /\ outlookEnabled = FALSE
          /\ outlookProcessedCache = 0
       \/ /\ outlookEnabled = TRUE
          /\ outlookProcessedCache \in (0 - MaxBelowZero)..MaxCache
          /\ gmailEnabled = FALSE
          /\ gmailProcessedCache = 0
    /\ Started([mail |-> FALSE, gmail |-> gmailEnabled, outlook |-> outlookEnabled])
    /\ NotDestroyed

\* trackProcessed is synchronous: once called, its loop goes on running.
LoopRuns ==
    \E src \in Sources :
        /\ LoopTurn(src) \/ LoopExit(src)
        /\ UNCHANGED <<imapVars, backendVars, startVars, shutdownVars>>

NextTrack ==
    \/ \E src \in Sources, id \in Ids :
          /\ listed < MaxEntries
          /\ TrackInsert(src, id)
          /\ UNCHANGED <<imapVars, backendVars, startVars, shutdownVars>>
    \/ LoopRuns

SpecTrack == InitTrack /\ [][NextTrack]_vars /\ WF_vars(LoopRuns)

\* ------------------------------------------------- poll sources: behaviours
\* One poll service is registered with the scheduler and enabled, with a
\* capacity from 0..MaxCache; the backend lists at most MaxEntries entries
\* in all; the clock does not move.
InitPoll ==
    /\ ImapOff
    /\ PollFields0
    /\ script = <<>>
    /\ \/ /\ gmailEnabled = TRUE
          /\ gmailProcessedCache \in 0..MaxCache
          /\ outlookEnabled = FALSE
          /\ outlookProcessedCache = 0
       \/ /\ outlookEnabled = TRUE
          /\ outlookProcessedCache \in 0..MaxCache
          /\ gmailEnabled = FALSE
          /\ gmailProcessedCache = 0
    /\ Started([mail |-> FALSE, gmail |-> gmailEnabled, outlook |-> outlookEnabled])
    /\ NotDestroyed

NextPoll ==
    \/ \E s \in PollSlots :
          /\ gmailTicks < MaxTicks
          /\ GmailTick(s)
          /\ UNCHANGED <<imapVars, backendVars, startVars, shutdownVars, script, aborted, evicting>>
    \/ \E s \in PollSlots, resp \in ListResponses :
          /\ listed + Len(resp.value) <= MaxEntries
          /\ GmailListDone(s, resp)
          /\ UNCHANGED <<imapVars, backendVars, startVars, shutdownVars, script, aborted, evicting>>
    \/ \E s \in PollSlots : GmailLoop(s) /\ UNCHANGED <<imapVars, backendVars, startVars, shutdownVars, script, aborted, evicting>>
    \/ \E s \in PollSlots : GmailInspectDone(s) /\ UNCHANGED <<imapVars, backendVars, startVars, shutdownVars, script, aborted, evicting>>
    \/ \E s \in PollSlots : GmailInspectFail(s) /\ UNCHANGED <<imapVars, backendVars, startVars, shutdownVars, script, aborted, evicting>>
    \/ \E s \in PollSlots :
          /\ outlookTicks < MaxTicks
          /\ OutlookTick(s)
          /\ UNCHANGED <<imapVars, backendVars, startVars, shutdownVars, script, aborted, evicting>>
    \/ \E s \in PollSlots, resp \in FewTokenResponses :
          OutlookExchangeDone(s, resp) /\ UNCHANGED <<imapVars, backendVars, startVars, shutdownVars, script, aborted, evicting>>
    \/ \E s \in PollSlots, resp \in ListResponses :
          /\ listed + Len(resp.value) <= MaxEntries
          /\ OutlookListDone(s, resp)
          /\ UNCHANGED <<imapVars, backendVars, startVars, shutdownVars, script, aborted, evicting>>
    \/ \E s \in PollSlots : OutlookLoop(s) /\ UNCHANGED <<imapVars, backendVars, startVars, shutdownVars, script, aborted, evicting>>

SpecPoll == InitPoll /\ [][NextPoll]_vars

\* The Outlook service alone, its mailbox empty, the clock moving.
InitToken ==
    /\ ImapOff
    /\ PollFields0
    /\ script = <<>>
    /\ outlookEnabled = TRUE
    /\ outlookProcessedCache = MaxCache
    /\ gmailEnabled = FALSE
    /\ gmailProcessedCache = 0
    /\ Started([mail |-> FALSE, gmail |-> FALSE, outlook |-> TRUE])
    /\ NotDestroyed

NextToken ==
    \/ \E t \in Instants : AdvanceClock(t) /\ UNCHANGED <<imapVars, backendVars, startVars, shutdownVars, script, aborted, evicting>>
    \/ \E s \in PollSlots :
          /\ outlookTicks < MaxTicks
          /\ OutlookTick(s)
          /\ UNCHANGED <<imapVars, backendVars, startVars, shutdownVars, script, aborted, evicting>>
    \/ \E s \in PollSlots, resp \in TokenResponses :
          OutlookExchangeDone(s, resp) /\ UNCHANGED <<imapVars, backendVars, startVars, shutdownVars, script, aborted, evicting>>
    \/ \E s \in PollSlots, resp \in {ListFailed, [ok |-> TRUE, value |-> <<>>]} :
          OutlookListDone(s, resp) /\ UNCHANGED <<imapVars, backendVars, startVars, shutdownVars, script, aborted, evicting>>

SpecToken == InitToken /\ [][NextToken]_vars

\* The Outlook service alone against a token endpoint that fails, answers
\* without access_token, or grants a token for 60 s; up to MaxFailureTicks
\* ticks (getAccessToken calls), which may overlap.
FailingTokenResponses ==
    {TokenFailed, [ok |-> TRUE, access_token |-> NoToken, expires_in |-> 60]}
    \cup [ok : {TRUE}, access_token : Tokens, expires_in : {60}]

NextTokenFailure ==
    \/ \E t \in {29999, 30000, 100000} :
          AdvanceClock(t) /\ UNCHANGED <<imapVars, backendVars, startVars, shutdownVars, script, aborted, evicting>>
    \/ \E s \in PollSlots :
          /\ outlookTicks < MaxFailureTicks
          /\ OutlookTick(s)
          /\ UNCHANGED <<imapVars, backendVars, startVars, shutdownVars, script, aborted, evicting>>
    \/ \E s \in PollSlots, resp \in FailingTokenResponses :
          OutlookExchangeDone(s, resp) /\ UNCHANGED <<imapVars, backendVars, startVars, shutdownVars, script, aborted, evicting>>
    \/ \E s \in PollSlots, resp \in {ListFailed, [ok |-> TRUE, value |-> <<>>]} :
          OutlookListDone(s, resp) /\ UNCHANGED <<imapVars, backendVars, startVars, shutdownVars, script, aborted, evicting>>

SpecTokenFailure == InitToken /\ [][NextTokenFailure]_vars

\* Polls whose listing or token request may fail. A failed listing response
\* is an error status, with or without a body that would read as a listing;
\* a successful one lists up to two ids. Each step that ends a poll on a
\* failed call is counted in aborted.
FailedListings == {ListFailed, [ok |-> FALSE, value |-> <<"C">>]}

FewListings == [ok : {TRUE}, value : {<<>>, <<"A">>, <<"B", "A">>}]

Abort(src) == aborted' = [aborted EXCEPT ![src] = @ + 1]

NextPollFailure ==
    \/ \E s \in PollSlots :
          /\ gmailTicks < MaxFailureTicks
          /\ GmailTick(s)
          /\ UNCHANGED <<imapVars, backendVars, startVars, shutdownVars, script, aborted, evicting>>
    \/ \E s \in PollSlots, resp \in FailedListings :
          /\ aborted["gmail"] < MaxFailedPolls
          /\ GmailListDone(s, resp)
          /\ Abort("gmail")
          /\ UNCHANGED <<imapVars, backendVars, startVars, shutdownVars, script, evicting>>
    \/ \E s \in PollSlots, resp \in FewListings :
          GmailListDone(s, resp) /\ UNCHANGED <<imapVars, backendVars, startVars, shutdownVars, script, aborted, evicting>>
    \/ \E s \in PollSlots : GmailLoop(s) /\ UNCHANGED <<imapVars, backendVars, startVars, shutdownVars, script, aborted, evicting>>
    \/ \E s \in PollSlots : GmailInspectDone(s) /\ UNCHANGED <<imapVars, backendVars, startVars, shutdownVars, script, aborted, evicting>>
    \/ \E s \in PollSlots :
          /\ outlookTicks < MaxFailureTicks
          /\ OutlookTick(s)
          /\ UNCHANGED <<imapVars, backendVars, startVars, shutdownVars, script, aborted, evicting>>
    \/ \E s \in PollSlots :
          /\ aborted["outlook"] < MaxFailedPolls
          /\ OutlookExchangeDone(s, TokenFailed)
          /\ Abort("outlook")
          /\ UNCHANGED <<imapVars, backendVars, startVars, shutdownVars, script, evicting>>
    \/ \E s \in PollSlots, resp \in FewTokenResponses \ {TokenFailed} :
          OutlookExchangeDone(s, resp) /\ UNCHANGED <<imapVars, backendVars, startVars, shutdownVars, script, aborted, evicting>>
    \/ \E s \in PollSlots, resp \in FailedListings :
          /\ aborted["outlook"] < MaxFailedPolls
          /\ OutlookListDone(s, resp)
          /\ Abort("outlook")
          /\ UNCHANGED <<imapVars, backendVars, startVars, shutdownVars, script, evicting>>
    \/ \E s \in PollSlots, resp \in FewListings :
          OutlookListDone(s, resp) /\ UNCHANGED <<imapVars, backendVars, startVars, shutdownVars, script, aborted, evicting>>
    \/ \E s \in PollSlots : OutlookLoop(s) /\ UNCHANGED <<imapVars, backendVars, startVars, shutdownVars, script, aborted, evicting>>

SpecPollFailure == InitPoll /\ [][NextPollFailure]_vars

\* Scenario C: the Outlook service with capacity 2 against a backend whose
\* successful listings are, in order, [A, B], [B, C], [A, D]; a tick fires
\* only when no poll is running.
ScriptC == << <<"A", "B">>, <<"B", "C">>, <<"A", "D">> >>

InitScenarioC ==
    /\ ImapOff
    /\ PollFields0
    /\ script = ScriptC
    /\ outlookEnabled = TRUE
    /\ outlookProcessedCache = 2
    /\ gmailEnabled = FALSE
    /\ gmailProcessedCache = 0
    /\ Started([mail |-> FALSE, gmail |-> FALSE, outlook |-> TRUE])
    /\ NotDestroyed

NoPollRunning == \A s \in PollSlots : outlookPoll[s].pc = "idle"

NextScenarioC ==
    \/ \E t \in Instants : AdvanceClock(t) /\ UNCHANGED <<imapVars, backendVars, startVars, shutdownVars, script, aborted, evicting>>
    \/ \E s \in PollSlots :
          /\ NoPollRunning
          /\ script # <<>>
          /\ outlookTicks < Len(ScriptC) + MaxFailedPolls
          /\ OutlookTick(s)
          /\ UNCHANGED <<imapVars, backendVars, startVars, shutdownVars, script, aborted, evicting>>
    \/ \E s \in PollSlots, resp \in TokenResponses :
          OutlookExchangeDone(s, resp) /\ UNCHANGED <<imapVars, backendVars, startVars, shutdownVars, script, aborted, evicting>>
    \/ \E s \in PollSlots :
          OutlookListDone(s, ListFailed) /\ UNCHANGED <<imapVars, backendVars, startVars, shutdownVars, script, aborted, evicting>>
    \/ \E s \in PollSlots :
          /\ OutlookListDone(s, [ok |-> TRUE, value |-> Head(script)])
          /\ script' = Tail(script)
          /\ UNCHANGED <<imapVars, backendVars, startVars, shutdownVars, aborted, evicting>>
    \/ \E s \in PollSlots : OutlookLoop(s) /\ UNCHANGED <<imapVars, backendVars, startVars, shutdownVars, script, aborted, evicting>>

SpecScenarioC == InitScenarioC /\ [][NextScenarioC]_vars

\* --------------------------------------------------- MailService: claims
ScansInFlight == Cardinality({s \in ScanSlots : scan[s].pc # "idle"})

\* C1: the Cursor (lastProcessedUid) never decreases, and every call of
\* sendNotification is for a uid strictly greater than the Cursor at the
\* moment of the call.
C1_CursorMonotoneNoRedispatch ==
    [][/\ lastProcessedUid' >= lastProcessedUid
       /\ Len(notifications') > Len(notifications)
            => notifications'[Len(notifications')] > lastProcessedUid]_vars

\* A scan that has dispatched, advanced the Cursor past its seed, and then
\* skipped a listed message whose uid lies below the Cursor.
C1_Witness ==
    \E s \in ScanSlots :
        /\ scan[s].pc = "iter"
        /\ scan[s].last.envelope
        /\ scan[s].last.uid > 0
        /\ scan[s].last.uid < lastProcessedUid
        /\ Len(notifications) >= 1
        /\ lastProcessedUid = notifications[Len(notifications)]

\* C2: at most one handleNewMessages is in flight; an 'exists' event that
\* arrives while processingMailbox is true changes nothing (no fetch, no
\* dispatch, no scan started), and a scan starts only in the step of an
\* event that found the flag clear, so a dropped event is never replayed.
C2_SingleScanSignalsDropped ==
    /\ [](ScansInFlight <= 1)
    /\ [][(signals' # signals /\ processingMailbox)
            => UNCHANGED <<scan, fetchCalls, notifications, lastProcessedUid,
                           processingMailbox>>]_vars
    /\ [][(fetchCalls' # fetchCalls \/ ScansInFlight' > ScansInFlight)
            => (signals' = signals + 1 /\ ~processingMailbox)]_vars

\* An event was dropped during a scan, the scan has ended, and no fetch was
\* issued for the dropped event.
C2_Witness ==
    /\ dropped >= 1
    /\ ~processingMailbox
    /\ ScansInFlight = 0
    /\ fetchCalls = 1
    /\ signals = 2

\* -------------------------------------------------- poll sources: claims
InFlight(poll) == Cardinality({s \in PollSlots : poll[s].pc # "idle"})

Range(q) == {q[i] : i \in 1..Len(q)}

NoDuplicates(q) == \A i, j \in 1..Len(q) : q[i] = q[j] => i = j

IsSuffix(a, b) ==
    /\ Len(a) <= Len(b)
    /\ a = SubSeq(b, Len(b) - Len(a) + 1, Len(b))

\* C3: a cron tick that fires while a pollInbox of the same source is still
\* running is skipped: at most one pollInbox per source is in flight, and a
\* tick that overlaps a running poll issues no listing call.
C3_OverlappingTickSkipped ==
    /\ [](InFlight(gmailPoll) <= 1 /\ InFlight(outlookPoll) <= 1)
    /\ [][(gmailTicks' # gmailTicks /\ InFlight(gmailPoll) > 0)
            => gmailLists' = gmailLists]_vars
    /\ [][(outlookTicks' # outlookTicks /\ InFlight(outlookPoll) > 0)
            => outlookLists' = outlookLists]_vars

\* C4: in every reachable state of either poll service, processedQueue has
\* no duplicate, processedSet holds exactly the queue's elements, and the
\* queue is no longer than processedCache.
C4_CacheConsistent ==
    /\ NoDuplicates(gmailProcessedQueue)
    /\ gmailProcessedSet = Range(gmailProcessedQueue)
    /\ Len(gmailProcessedQueue) <= gmailProcessedCache
    /\ NoDuplicates(outlookProcessedQueue)
    /\ outlookProcessedSet = Range(outlookProcessedQueue)
    /\ Len(outlookProcessedQueue) <= outlookProcessedCache

\* A full Gmail cache from which an identifier has been evicted and in
\* which a second trackProcessed of a cached identifier was a no-op.
C4_Witness ==
    /\ gmailProcessedCache >= 1
    /\ Len(gmailProcessedQueue) = gmailProcessedCache
    /\ \E i \in Ids : notified["gmail"][i] >= 1 /\ i \notin gmailProcessedSet
    /\ \E i \in Ids : horizon["gmail"][i] >= 2 /\ i \in gmailProcessedSet

\* One step of poll service src seen from its cache <<q, s>>: when an
\* identifier is logged and tracked, the identifiers that leave the cache
\* are the earliest inserted ones (what stays is a suffix of the insertion
\* order); in every other step, a membership hit included, the queue and
\* the set stay as they are.
FifoStep(src, q, s, qNext, sNext) ==
    IF \E i \in Ids : notified'[src][i] # notified[src][i]
    THEN LET id == CHOOSE i \in Ids : notified'[src][i] # notified[src][i]
             inserted == IF id \in s THEN order[src] ELSE Append(order[src], id)
         IN  /\ IsSuffix(order'[src], inserted)
             /\ Range(order'[src]) = sNext
             /\ id \in s => qNext = q
    ELSE qNext = q /\ sNext = s

\* C5: eviction is strict FIFO by insertion order: whenever trackProcessed
\* evicts, it removes the earliest-inserted identifier still cached, the
\* queue lists the cached identifiers in insertion order, and a membership
\* hit on a cached identifier leaves the queue as it is.
C5_FifoEviction ==
    /\ [](gmailProcessedQueue = order["gmail"] /\ outlookProcessedQueue = order["outlook"])
    /\ [][FifoStep("gmail", gmailProcessedQueue, gmailProcessedSet, gmailProcessedQueue', gmailProcessedSet')]_vars
    /\ [][FifoStep("outlook", outlookProcessedQueue, outlookProcessedSet, outlookProcessedQueue',
                   outlookProcessedSet')]_vars

\* An identifier was re-listed and skipped as cached, and was later evicted
\* all the same while identifiers inserted after it stay cached.
C5_Witness ==
    \E i \in Ids :
        /\ lastHit["outlook"] = i
        /\ notified["outlook"][i] = 1
        /\ i \notin outlookProcessedSet
        /\ outlookProcessedCache = 2
        /\ Len(outlookProcessedQueue) = 2

\* C6: an identifier offered more than once before it is evicted is
\* notified exactly once: since it last left the cache it has been logged
\* at most once, and exactly once while it is cached.
C6_OneNotificationPerHorizon ==
    \A src \in Sources, i \in Ids :
        /\ horizon[src][i] <= 1
        /\ (i \in (IF src = "gmail" THEN gmailProcessedSet ELSE outlookProcessedSet))
              => horizon[src][i] = 1

\* C7: Scenario C. Once [A, B] and [B, C] have been processed (the third
\* poll is about to start or waits for its listing) the cache is exactly
\* <<B, C>> and A has been notified once; once [A, D] has been processed A
\* has been notified a second time.
C7_ScenarioC ==
    /\ (Len(script) = 1 /\ ~Busy)
          => /\ outlookProcessedQueue = <<"B", "C">>
             /\ outlookProcessedSet = {"B", "C"}
             /\ notified["outlook"]["A"] = 1
    /\ (Len(script) = 0 /\ ~Busy)
          => /\ notified["outlook"]["A"] = 2
             /\ notified["outlook"]["D"] = 1
             /\ outlookProcessedQueue = <<"A", "D">>

\* The third poll has processed [A, D].
C7_Witness ==
    /\ script = <<>>
    /\ ~Busy
    /\ NoPollRunning
    /\ notified["outlook"]["A"] = 2

\* ------------------------------------------------------ TokenCache: claims
\* C8 as stated: every token getAccessToken returns, whatever lifetime the
\* exchange reported, has at least 30 seconds left at the moment it is
\* returned.
C8_AlwaysFresh ==
    lastReturn # NoReturn => lastReturn.expiresAt - lastReturn.at >= SkewMs

\* C8 amended: a token whose reported lifetime is at least 30 seconds has
\* at least 30 seconds left whenever getAccessToken returns it, fresh or
\* from the cache.
C8_FreshWhenLifetimeAtLeastSkew ==
    (lastReturn # NoReturn /\ expiresInSec * 1000 >= SkewMs)
        => lastReturn.expiresAt - lastReturn.at >= SkewMs

\* A cached token returned with 30.001 seconds left.
C8_Witness ==
    /\ lastReturn # NoReturn
    /\ ~lastReturn.exchanged
    /\ lastReturn.expiresAt - lastReturn.at = SkewMs + 1

\* A getAccessToken call, made in the step of a cron tick.
TokenCall == outlookTicks' = outlookTicks + 1

\* The call returns the cached token unchanged, without an exchange.
ReturnsCached ==
    /\ exchanges' = exchanges
    /\ lastReturn'.token = accessToken
    /\ ~lastReturn'.exchanged
    /\ UNCHANGED <<accessToken, accessTokenExpiresAtMs>>

\* The call issues one token request and returns nothing yet.
StartsExchange ==
    /\ exchanges' = exchanges + 1
    /\ lastReturn' = lastReturn
    /\ UNCHANGED <<accessToken, accessTokenExpiresAtMs>>

\* Token requests are issued by calls only, and the cached token changes
\* only when one is stored with expiry = now + lifetime.
ExchangeAndStore ==
    /\ exchanges' # exchanges => TokenCall
    /\ (accessToken' # accessToken \/
        accessTokenExpiresAtMs' # accessTokenExpiresAtMs)
          => /\ accessToken' # NoToken
             /\ exchanges' = exchanges
             /\ accessTokenExpiresAtMs' = now + expiresInSec' * 1000

\* C9 as stated: with a cached token and at least 30 seconds left (exactly
\* 30 included) the call returns the cached token without an exchange;
\* otherwise it performs one exchange and stores expiry = now + lifetime.
C9_HitAtLeastSkew ==
    [][/\ TokenCall =>
            IF accessToken # NoToken /\ accessTokenExpiresAtMs - now >= SkewMs
            THEN ReturnsCached ELSE StartsExchange
       /\ ExchangeAndStore]_vars

\* C9 amended: the cached token is returned only when more than 30 seconds
\* are left; with exactly 30 seconds left the call performs an exchange.
C9_HitMoreThanSkew ==
    [][/\ TokenCall =>
            IF accessToken # NoToken /\ accessTokenExpiresAtMs - now > SkewMs
            THEN ReturnsCached ELSE StartsExchange
       /\ ExchangeAndStore]_vars

\* A call that found a token with exactly 30 seconds left and exchanged, the
\* new token already stored.
C9_Witness ==
    /\ lastCall.hadToken
    /\ lastCall.remaining = SkewMs
    /\ lastCall.exchanged
    /\ lastReturn.exchanged
    /\ lastReturn.at >= lastCall.at
    /\ exchanges >= 2

\* A call made d milliseconds after the cached token was stored by an
\* exchange that reported 3600 seconds.
ScenarioDCall(d) ==
    /\ TokenCall
    /\ accessToken # NoToken
    /\ expiresInSec = 3600
    /\ now = exchangedAt + d

\* C10 as stated: Scenario D. A call 3550 s after the exchange performs a
\* fresh exchange; a call 100 s after it returns the cached token.
C10_ScenarioD ==
    [][/\ ScenarioDCall(3550000) => StartsExchange
       /\ ScenarioDCall(100000) => ReturnsCached]_vars

\* C10 amended: the call 3550 s after the exchange returns the cached token
\* too (50 s are left); the first call that exchanges is at 3570 s.
C10_ScenarioDCachedAt3550 ==
    [][/\ ScenarioDCall(3550000) => ReturnsCached
       /\ ScenarioDCall(100000) => ReturnsCached
       /\ ScenarioDCall(3570000) => StartsExchange]_vars

\* The call at T0 + 3550 s found 50 s left and returned the cached token.
C10_Witness ==
    /\ expiresInSec = 3600
    /\ lastCall.at = exchangedAt + 3550000
    /\ lastCall.remaining = 50000
    /\ ~lastCall.exchanged
    /\ lastReturn.at = lastCall.at
    /\ lastReturn.token = accessToken

\* A token request settled with an error: the invocation that awaited it is
\* over without a listing call.
ExchangeRaised ==
    \E s \in PollSlots : outlookPoll[s].pc = "exchange" /\ outlookPoll'[s].pc = "idle"

\* The first call after a failed one finds the cache as the failed call
\* found it.
RetryAfterFailure ==
    /\ TokenCall
    /\ lastFailure.raised
    /\ lastFailure.next = "none"
    /\ accessToken = lastFailure.token
    /\ accessTokenExpiresAtMs = lastFailure.expiresAt

ExchangesInFlight == Cardinality({s \in PollSlots : outlookPoll[s].pc = "exchange"})

\* C12: however cron ticks interleave with slow token requests and listing
\* calls, at most one token request of the Outlook service is pending.
C12_SingleExchangeInFlight == ExchangesInFlight <= 1

\* C17: every scan that ends, by return or by a rejection of the fetch or
\* of sendNotification, leaves processingMailbox false; the flag is never
\* set while no scan runs; and the next 'exists' event that finds something
\* to fetch starts a new scan.
C17_GuardReleased ==
    /\ [][\A s \in ScanSlots :
             (scan[s].pc # "idle" /\ scan'[s].pc = "idle") => ~processingMailbox']_vars
    /\ [](ScansInFlight = 0 => ~processingMailbox)
    /\ [][(signals' = signals + 1 /\ ScansInFlight = 0 /\ ~EarlyReturn)
            => /\ ScansInFlight' = 1
               /\ fetchCalls' = fetchCalls + 1
               /\ processingMailbox']_vars

\* A scan ended on a rejected sendNotification (the last call left the Cursor
\* below its uid) and the next 'exists' event has started a second scan.
C17_Witness ==
    /\ fetchCalls = 2
    /\ dropped = 0
    /\ processingMailbox
    /\ notifications # <<>>
    /\ notifications[Len(notifications)] > lastProcessedUid
    /\ \E s \in ScanSlots : scan[s].pc = "iter" /\ scan[s].yielded = 0

\* ------------------------------------- MailService against a server: claims
Uids(listing) == [i \in 1..Len(listing) |-> listing[i].uid]

\* The last fetch was answered with messages above the Cursor, ascending.
RegularListing ==
    /\ scanListing # <<>>
    /\ \A i \in 1..Len(scanListing) : scanListing[i].uid > scanSeed
    /\ \A i, j \in 1..Len(scanListing) :
          i < j => scanListing[i].uid < scanListing[j].uid

\* Invocation s leaves its loop with the fetch exhausted.
ScanOver(s) ==
    /\ scan[s].pc = "iter"
    /\ scan'[s].pc = "idle"
    /\ pending = <<>>

CalledInScan == SubSeq(notifications, scanBase.calls + 1, Len(notifications))

SentInScan == SubSeq(delivered, scanBase.sent + 1, Len(delivered))

\* C13: a scan over a listing of messages above the Cursor in ascending
\* uid order, none of whose dispatches fails, has called sendNotification
\* once per listed message in listing order, each call has resolved, and
\* the Cursor ends at the last (largest) listed uid.
C13_ScanDispatchesListingInOrder ==
    [][\A s \in ScanSlots :
          (ScanOver(s) /\ RegularListing) =>
              /\ CalledInScan = Uids(scanListing)
              /\ SentInScan = Uids(scanListing)
              /\ lastProcessedUid' = scanListing[Len(scanListing)].uid]_vars

\* A finished scan whose listing held MaxList messages, all dispatched.
C13_Witness ==
    /\ ScansInFlight = 0
    /\ ~processingMailbox
    /\ RegularListing
    /\ Len(scanListing) = MaxList
    /\ SentInScan = Uids(scanListing)
    /\ lastProcessedUid = scanListing[Len(scanListing)].uid

\* sendNotification rejected in invocation s.
DispatchFailed(s) ==
    /\ scan[s].pc = "sending"
    /\ scan'[s].pc = "idle"

\* No scan is running and the last sendNotification call did not move the
\* Cursor: it failed.
LastDispatchFailed ==
    /\ ScansInFlight = 0
    /\ notifications # <<>>
    /\ notifications[Len(notifications)] > lastProcessedUid

\* C14: when sendNotification fails for message k the scan is over: the
\* Cursor stays at the uid of the last message sent before k in this scan
\* (at its pre-scan value when there is none), the calls of the scan are
\* the listing up to k and all but the last have resolved, nothing after k
\* is attempted, and the next fetch is answered with k first and with
\* every later message of the failed scan's listing.
C14_FailedDispatchStopsScan ==
    [][/\ \A s \in ScanSlots :
            DispatchFailed(s) =>
                /\ lastProcessedUid' = lastProcessedUid
                /\ lastProcessedUid = IF SentInScan # <<>>
                                      THEN SentInScan[Len(SentInScan)]
                                      ELSE scanSeed
                /\ notifications' = notifications
                /\ ScansInFlight' = 0
                /\ RegularListing =>
                      \E n \in 1..Len(scanListing) :
                          /\ CalledInScan = SubSeq(Uids(scanListing), 1, n)
                          /\ SentInScan = SubSeq(Uids(scanListing), 1, n - 1)
       /\ (LastDispatchFailed /\ fetchCalls' = fetchCalls + 1) =>
            /\ scanListing' # <<>>
            /\ scanListing'[1].uid = notifications[Len(notifications)]
            /\ \A i \in 1..Len(scanListing) :
                  scanListing[i].uid >= notifications[Len(notifications)]
                      => scanListing[i].uid \in Range(Uids(scanListing'))]_vars

\* Scenario B's shape: the first scan sent one message and failed on the
\* next; the second scan's fetch has just been answered with the failed
\* message and a later one, the Cursor still at the message sent.
C14_Witness ==
    /\ fetchCalls = 2
    /\ Len(notifications) = 2
    /\ Len(delivered) = 1
    /\ lastProcessedUid = delivered[1]
    /\ scanSeed = delivered[1]
    /\ Len(scanListing) = 2
    /\ scanListing[1].uid = notifications[2]
    /\ pending = scanListing
    /\ ScansInFlight = 1

\* ------------------------------------------- poll sources: failures, claims
\* users.messages.get rejected for the entry invocation s was inspecting:
\* the invocation has moved on and no "detected message" line was logged.
InspectFailed(s) ==
    /\ gmailPoll[s].pc = "inspect"
    /\ gmailPoll'[s] # gmailPoll[s]
    /\ notified' = notified

\* C15: when inspectMessage raises for a listed entry, the failure stays
\* with that entry: trackProcessed(id) is still applied and the loop goes
\* on with the remaining entries of the listing.
C15_InspectFailureSwallowed ==
    [][\A s \in PollSlots :
          InspectFailed(s) =>
              LET id == Head(gmailPoll[s].rest)
                  tp == TrackProcessed(gmailProcessedQueue, gmailProcessedSet,
                                       gmailProcessedCache, id)
              IN  /\ gmailProcessedQueue' = tp.queue
                  /\ gmailProcessedSet' = tp.set
                  /\ gmailPoll'[s] = AfterEntry(gmailPoll[s].rest)]_vars

\* ------------------------------------------------------------ startup: claims
\* onModuleInit of src met a missing setting or another initialisation
\* failure.
InitFailed(src) == hook[src] \in {"rejected", "init_failed"}

\* C16: an initialisation failure of one source stays with that source:
\* the process is not ended, and a sibling whose settings are complete is
\* started and keeps serving its triggers.
C16_StartupFailureIsolated ==
    \A src \in Providers :
        InitFailed(src) =>
            /\ process # "exited"
            /\ \A sib \in Providers \ {src} :
                  (config[sib] = "ok" /\ process = "up") => hook[sib] = "running"

\* C18: whenever the Cursor is c, every message a fetch has yielded with
\* seed < uid <= c has had its sendNotification resolve exactly once:
\* the Cursor never passes a yielded message that was not sent, be it
\* skipped for a missing envelope or yielded out of ascending order.
C18_NothingBelowCursorUnsent ==
    \A u \in offered :
        u <= lastProcessedUid =>
            Cardinality({i \in 1..Len(delivered) : delivered[i] = u}) = 1

\* C19: with scans that end and sends that resolve, every message the
\* server holds above the seed is eventually sent and the Cursor eventually
\* reaches its uid, a message included that arrived during a scan and
\* whose 'exists' event was dropped.
C19_EveryArrivalEventuallySent ==
    \A u \in 1..MaxUid :
        (u \in mailbox /\ u > seed)
            ~> (u \in Range(delivered) /\ lastProcessedUid >= u)

\* -------------------------------------------- failed listing or token call
GmailCache == <<gmailProcessedQueue, gmailProcessedSet, notified["gmail"]>>

OutlookCache == <<outlookProcessedQueue, outlookProcessedSet, notified["outlook"]>>

\* C20: a poll whose listing or token request fails is over for that
\* cycle: the failing step ends the invocation and changes neither the
\* service's processedQueue and processedSet nor its log of detected
\* messages, which only an invocation past a successful listing changes;
\* and the cron tick after it starts a full new poll (a listing call, or
\* the token request that precedes it).
C20_FailedPollLeavesCache ==
    /\ [][(aborted'["gmail"] > aborted["gmail"])
            => /\ GmailCache' = GmailCache
               /\ InFlight(gmailPoll') = InFlight(gmailPoll) - 1]_vars
    /\ [][(aborted'["outlook"] > aborted["outlook"])
            => /\ OutlookCache' = OutlookCache
               /\ InFlight(outlookPoll') = InFlight(outlookPoll) - 1]_vars
    /\ [][(GmailCache' # GmailCache)
            => \E s \in PollSlots : gmailPoll[s].pc \in {"loop", "inspect"}]_vars
    /\ [][(OutlookCache' # OutlookCache)
            => \E s \in PollSlots : outlookPoll[s].pc = "loop"]_vars
    /\ [][(aborted["gmail"] > 0 /\ gmailTicks' = gmailTicks + 1)
            => /\ gmailLists' = gmailLists + 1
               /\ \E s \in PollSlots :
                     gmailPoll[s].pc = "idle" /\ gmailPoll'[s].pc = "list"]_vars
    /\ [][(aborted["outlook"] > 0 /\ outlookTicks' = outlookTicks + 1)
            => \E s \in PollSlots :
                  /\ outlookPoll[s].pc = "idle"
                  /\ \/ outlookPoll'[s].pc = "list" /\ outlookLists' = outlookLists + 1
                     \/ outlookPoll'[s].pc = "exchange" /\ exchanges' = exchanges + 1]_vars

\* A poll logged an id, the next one was aborted with the cache as the
\* first left it, and the tick after that has a new listing call pending.
C20_Witness ==
    /\ aborted["outlook"] = 1
    /\ outlookProcessedQueue # <<>>
    /\ outlookTicks = MaxFailureTicks
    /\ InFlight(outlookPoll) = 1
    /\ \E s \in PollSlots : outlookPoll[s].pc = "list"

\* ------------------------------------------------------ shutdown: claims
\* C21: no error met by the push source after onModuleDestroy set
\* shuttingDown is written to the error log (a connection 'error' event,
\* a failing logout, a failure of a scan still in flight), and every
\* error met before that is written.
C21_ShutdownErrorsSuppressed ==
    /\ \A e \in errorLog : ~e.shutdown
    /\ \A e \in observed : ~e.shutdown => e \in errorLog

\* ------------------------------------------- Outlook under overlapping polls
\* C22: whatever the interleaving of concurrently running Outlook
\* pollInbox executions, an identifier listed to several of them is
\* logged once while it stays cached: since it last left the cache it
\* has been logged at most once, and exactly once if it is cached now.
C22_OutlookOneNotificationWhileCached ==
    \A i \in Ids :
        /\ horizon["outlook"][i] <= 1
        /\ i \in outlookProcessedSet => horizon["outlook"][i] = 1

\* The second of two overlapping polls has just skipped A, which it was
\* listed ahead of B and which has been logged once.
C22_Witness ==
    /\ outlookTicks = 2
    /\ outlookPoll[2] = [pc |-> "loop", rest |-> <<"B">>]
    /\ lastHit["outlook"] = "A"
    /\ "A" \in outlookProcessedSet
    /\ notified["outlook"]["A"] = 1

\* ------------------------------------------------- trackProcessed: claims
\* C23: for every integer capacity, 0 and negative ones included, the
\* eviction loop of trackProcessed comes to an end; and with capacity 0
\* the cache is empty whenever trackProcessed has returned.
C23_EvictionLoopTerminates ==
    /\ (evicting # "none") ~> (evicting = "none")
    /\ [](\A src \in Sources :
            (evicting = "none" /\ CacheOf(src).cap = 0)
                => CacheOf(src).queue = <<>> /\ CacheOf(src).set = {})

====
